---- MODULE Spec2Model ----
(***************************************************************************)
(* Model of general_utils.aws_wrappers.dynamo.change_streams:              *)
(* AwsChangeStream (the data source wrapper) and StreamOrchestrator (the   *)
(* shard resolution and traversal engine), and of                          *)
(* general_utils.decorators.api_multi_call_decorator as utils.http_request *)
(* applies it, and function_retry_decorator; of                            *)
(* general_utils.aws_wrappers.s3.S3FileAppendContextManager; of            *)
(* general_utils.utils.path_parse; of                                      *)
(* general_utils.aws_wrappers.kms.AwsKms.bulk_decrypt.                     *)
(*                                                                         *)
(* Python strings are sequences of code points, so that str comparison     *)
(* (sorted's key), float() parsing and the substring test "shardId" in v   *)
(* are computed as Python computes them.  An optional dict key is a        *)
(* sequence of length 0 (key absent) or 1 (key present).                   *)
(***************************************************************************)
EXTENDS Integers, Sequences, FiniteSets, TLC

\* ------------------------------------------------------------------ bounds
MaxShards == 3      \* shards per snapshot, resolution specification
MaxRunShards == 2   \* shards per generated snapshot, traversal specification
MaxPages == 2       \* pages a reader fetches from one shard in one session
MaxLimit == 1       \* largest limit_records passed to process_records
MaxDelay == 2       \* seconds one page fetch may take
MaxRetry == 3       \* largest times_to_retry / max_attempts passed
MaxCalls == 2       \* add_rows and add_headers calls in one with-block
MaxDepth == 3       \* components of a path given to path_parse
MaxArgs == 2        \* positional arguments of bulk_decrypt

\* ----------------------------------------------------------------- strings
S5 == <<53>>
S99 == <<57, 57>>
S100 == <<49, 48, 48>>
S101 == <<49, 48, 49>>
S200 == <<50, 48, 48>>
S201 == <<50, 48, 49>>
S250 == <<50, 53, 48>>
S300 == <<51, 48, 48>>
S301 == <<51, 48, 49>>
StrNone == <<78, 111, 110, 101>>
StrShardId == <<115, 104, 97, 114, 100, 73, 100>>
IdA == <<65>>
IdB == <<66>>
IdC == <<67>>

\* Python None passed as the sequence_number argument
PyNone == <<-1>>

\* str(x) of the sequence_number argument: an int is given by its decimal
\* text, None becomes the text "None"
str(x) == IF x = PyNone THEN StrNone ELSE x

\* "shardId-<i>", the form of the ids the service assigns
ShardIdOf(i) == StrShardId \o <<45, 48 + i>>

\* the id of a parent that has expired from the stream (not in the snapshot)
ExpiredShardId == ShardIdOf(0)

IsDigit(c) == c \in 48..57

\* float(s) raises ValueError unless s is a numeric text; the texts of the
\* model are digit strings or "None"
float_raises(s) == Len(s) = 0 \/ \E i \in 1..Len(s) : ~IsDigit(s[i])

RECURSIVE float(_)
\* float(s) for a digit string (below 2^53, where the conversion is exact)
float(s) == IF Len(s) = 0 THEN 0
            ELSE 10 * float(SubSeq(s, 1, Len(s) - 1)) + (s[Len(s)] - 48)

RECURSIVE StrLess(_, _)
\* a < b on str: code point by code point, a proper prefix is smaller
StrLess(a, b) ==
    IF Len(b) = 0 THEN FALSE
    ELSE IF Len(a) = 0 THEN TRUE
    ELSE IF a[1] # b[1] THEN a[1] < b[1]
    ELSE StrLess(Tail(a), Tail(b))

\* needle in hay, on str
StrContains(needle, hay) ==
    \E k \in 0..(Len(hay) - Len(needle)) :
        SubSeq(hay, k + 1, k + Len(needle)) = needle

\* ------------------------------------------------------- shard descriptors
HasKey(opt) == opt # <<>>

Shard(id, parent, start, end) ==
    [ShardId |-> id, ParentShardId |-> parent,
     StartingSequenceNumber |-> start, EndingSequenceNumber |-> end]

RECURSIVE SeqFilter(_, _)
SeqFilter(arr, keep) ==
    IF Len(arr) = 0 THEN <<>>
    ELSE IF arr[1] \in keep THEN <<arr[1]>> \o SeqFilter(Tail(arr), keep)
    ELSE SeqFilter(Tail(arr), keep)

Elems(arr) == {arr[i] : i \in 1..Len(arr)}

\* is_shard_open that looks for the key in the shard, not in its
\* SequenceNumberRange, where it never is
is_shard_open_top_level(shard_info) == TRUE

is_shard_open(shard_info) == ~HasKey(shard_info.EndingSequenceNumber)

get_open_shards(arr) == SeqFilter(arr, {x \in Elems(arr) : is_shard_open(x)})

RECURSIVE InsertByStart(_, _)
\* place x after every element whose key is not greater (sorted is stable)
InsertByStart(acc, x) ==
    IF Len(acc) = 0 THEN <<x>>
    ELSE IF StrLess(x.StartingSequenceNumber, acc[1].StartingSequenceNumber)
         THEN <<x>> \o acc
    ELSE <<acc[1]>> \o InsertByStart(Tail(acc), x)

RECURSIVE sorted(_)
\* sorted(arr, key=StartingSequenceNumber): the key is a str
sorted(arr) ==
    IF Len(arr) = 0 THEN <<>>
    ELSE InsertByStart(sorted(SubSeq(arr, 1, Len(arr) - 1)), arr[Len(arr)])

get_closed_shards(arr) ==
    sorted(SeqFilter(arr, {x \in Elems(arr) : HasKey(x.EndingSequenceNumber)}))

RECURSIVE RangeFilter(_, _, _)
\* the filter of find_shard_info, element by element: the chained comparison
\* reads EndingSequenceNumber only when start <= position holds
RangeFilter(arr, sequence_number, acc) ==
    IF Len(arr) = 0 THEN [exc |-> "none", val |-> acc]
    ELSE LET x == arr[1] IN
         IF float_raises(x.StartingSequenceNumber) \/ float_raises(sequence_number)
         THEN [exc |-> "ValueError", val |-> <<>>]
         ELSE IF ~(float(x.StartingSequenceNumber) <= float(sequence_number))
         THEN RangeFilter(Tail(arr), sequence_number, acc)
         ELSE IF ~HasKey(x.EndingSequenceNumber)
         THEN [exc |-> "KeyError", val |-> <<>>]
         ELSE IF float_raises(x.EndingSequenceNumber[1])
         THEN [exc |-> "ValueError", val |-> <<>>]
         ELSE IF float(sequence_number) <= float(x.EndingSequenceNumber[1])
         THEN RangeFilter(Tail(arr), sequence_number, Append(acc, x))
         ELSE RangeFilter(Tail(arr), sequence_number, acc)

\* find_shard_info with an except branch that gives up (filtered_array = [])
\* instead of falling back to the open shards
find_shard_info_no_fallback(arr, sequence_number) ==
    LET r == RangeFilter(arr, sequence_number, <<>>)
    IN IF r.exc = "ValueError" THEN [exc |-> "ValueError", val |-> <<>>]
       ELSE IF Len(r.val) > 0
            THEN [exc |-> "none", val |-> <<r.val[1]>>]
            ELSE [exc |-> "none", val |-> <<>>]

\* find_shard_info: exc is the exception that leaves the method ("none" when
\* it returns), val the returned shard (absent: the method returns None)
find_shard_info(arr, sequence_number) ==
    LET r == RangeFilter(arr, sequence_number, <<>>)
        filtered_array == IF r.exc = "KeyError" THEN get_open_shards(arr) ELSE r.val
    IN IF r.exc = "ValueError" THEN [exc |-> "ValueError", val |-> <<>>]
       ELSE IF Len(filtered_array) > 0
            THEN [exc |-> "none", val |-> <<filtered_array[1]>>]
            ELSE [exc |-> "none", val |-> <<>>]

RECURSIVE ChildFilter_newest_first(_, _)
\* a filter that lists the children of a shard newest first
ChildFilter_newest_first(arr, shard_id) ==
    IF Len(arr) = 0 THEN [exc |-> "none", val |-> <<>>]
    ELSE IF ~HasKey(arr[1].ParentShardId) THEN [exc |-> "KeyError", val |-> <<>>]
    ELSE LET rest == ChildFilter_newest_first(Tail(arr), shard_id) IN
         IF rest.exc # "none" THEN rest
         ELSE IF arr[1].ParentShardId[1] = shard_id
              THEN [exc |-> "none", val |-> rest.val \o <<arr[1]>>]
              ELSE rest

RECURSIVE ChildFilter(_, _)
\* the filter of get_closed_children_shards: reads ParentShardId of every
\* shard of the snapshot
ChildFilter(arr, shard_id) ==
    IF Len(arr) = 0 THEN [exc |-> "none", val |-> <<>>]
    ELSE IF ~HasKey(arr[1].ParentShardId) THEN [exc |-> "KeyError", val |-> <<>>]
    ELSE LET rest == ChildFilter(Tail(arr), shard_id) IN
         IF rest.exc # "none" THEN rest
         ELSE IF arr[1].ParentShardId[1] = shard_id
              THEN [exc |-> "none", val |-> <<arr[1]>> \o rest.val]
              ELSE rest

RECURSIVE ChildrenLoop(_, _, _)
ChildrenLoop(arr, starting_shard, filtered_shards) ==
    LET child_shard == ChildFilter(arr, starting_shard.ShardId) IN
    IF child_shard.exc # "none" THEN [exc |-> child_shard.exc, val |-> <<>>]
    ELSE IF Len(child_shard.val) = 0 THEN [exc |-> "none", val |-> filtered_shards]
    ELSE IF HasKey(child_shard.val[1].EndingSequenceNumber)
         THEN ChildrenLoop(arr, child_shard.val[1],
                           Append(filtered_shards, child_shard.val[1]))
    ELSE [exc |-> "none", val |-> filtered_shards]

get_closed_children_shards(arr, starting_shard) ==
    ChildrenLoop(arr, starting_shard, <<>>)

\* a filter that takes the first shard of the array, whatever its id
filter_shard_array_first(shard_id, arr) ==
    IF Len(arr) = 0 THEN [exc |-> "IndexError", val |-> <<>>]
    ELSE [exc |-> "none", val |-> <<arr[1]>>]

\* filter_shard_array: list(filter(...))[0], IndexError when no shard matches
filter_shard_array(shard_id, arr) ==
    LET m == SeqFilter(arr, {x \in Elems(arr) : x.ShardId = shard_id})
    IN IF Len(m) = 0 THEN [exc |-> "IndexError", val |-> <<>>]
       ELSE [exc |-> "none", val |-> <<m[1]>>]

\* ------------------------------------------------- the stream's snapshots
\* sequence numbers of the generated snapshots: "99" and "100" differ in
\* digit count
SeqNums == {S99, S100, S200}

\* sequence numbers of the generated snapshots the traversal starts from (its
\* longer chains are the scenarios)
RunSeqNums == {S99, S100}

\* resume positions given to the constructor (None: no resume position)
Positions == {S5, S99, S100, S200, S250, PyNone}

\* SequenceNumberRange values: open (no EndingSequenceNumber) or closed
Ranges(nums) ==
    {[s |-> a, e |-> <<>>] : a \in nums}
    \cup {[s |-> r[1], e |-> <<r[2]>>] :
            r \in {q \in nums \X nums : float(q[1]) < float(q[2])}}

\* ParentShardId of shard i: absent (a root of the stream), the id of a shard
\* that has expired from the stream, or a closed shard of the snapshot that
\* ended before shard i started
ParentChoices(rs, i) ==
    {<<>>, <<ExpiredShardId>>}
    \cup {<<ShardIdOf(j)>> :
            j \in {k \in DOMAIN rs \ {i} :
                     /\ HasKey(rs[k].e)
                     /\ float(rs[k].e[1]) < float(rs[i].s)}}

RECURSIVE ParentSeqs(_, _)
ParentSeqs(rs, i) ==
    IF i = 0 THEN {<<>>}
    ELSE {Append(p, c) : p \in ParentSeqs(rs, i - 1), c \in ParentChoices(rs, i)}

\* the parents of n shards that are all roots of the stream, or whose parents
\* have all expired from it
UniformParentSeqs(n) ==
    {[i \in 1..n |-> <<>>], [i \in 1..n |-> <<ExpiredShardId>>]}

\* the describe_stream result with these ranges and parents, in this order
SnapshotOf(rs, ps) ==
    [i \in 1..Len(rs) |-> Shard(ShardIdOf(i), ps[i], rs[i].s, rs[i].e)]

\* A(100-200) -> B(201-300) -> C(301-, open), A a root of the stream
ScenarioChain ==
    <<Shard(IdA, <<>>, S100, <<S200>>),
      Shard(IdB, <<IdA>>, S201, <<S300>>),
      Shard(IdC, <<IdB>>, S301, <<>>)>>

\* a chain whose closed shards start at "99" and "101"; the parent of the
\* oldest shard has expired
ScenarioDigits ==
    <<Shard(ShardIdOf(1), <<ExpiredShardId>>, S99, <<S100>>),
      Shard(ShardIdOf(2), <<ShardIdOf(1)>>, S101, <<S200>>),
      Shard(ShardIdOf(3), <<ShardIdOf(2)>>, S201, <<>>)>>

\* a split: shardId-1 (99-100) has the closed children shardId-2 and
\* shardId-3, and shardId-2 has the open child shardId-4
ScenarioFork ==
    <<Shard(ShardIdOf(1), <<ExpiredShardId>>, S99, <<S100>>),
      Shard(ShardIdOf(2), <<ShardIdOf(1)>>, S101, <<S200>>),
      Shard(ShardIdOf(3), <<ShardIdOf(1)>>, S201, <<S300>>),
      Shard(ShardIdOf(4), <<ShardIdOf(2)>>, S301, <<>>)>>

Scenarios == {ScenarioChain, ScenarioDigits, ScenarioFork}

\* ------------------------------------------------------------------- state
VARIABLES
    pc,                     \* where the program is
    exception,              \* the exception that left it ("none")
    stream,                 \* data source: the shards describe_stream returns now
    sequence_number,        \* StreamOrchestrator fields
    shard_array,
    open_shards,
    closed_shards,
    sequence_shard_info,
    is_sequence_shard_open,
    next_shard_iterator,
    walk_start,             \* get_closed_children_shards: argument and result
    walk_result,
    limit_records,          \* process_records: its argument
    queue,                  \* trim_horizon_closed_shards: shard ids left to map
    call,                   \* get_stream_data: arguments and local variables
    clock,                  \* timeit.default_timer() - start, in seconds
    opened,                 \* create_shard_iterator requests sent to the service
    responses,              \* this call: the get_records responses, in order,
                            \* each with the iterator it was fetched with
    printed,                \* this call: pages whose records were printed
    described,              \* this call: the re-checks made (describe_stream
                            \* calls) and the timer reading at the latest one
    stream_data_return,     \* the value the last get_stream_data call returned
    result,                 \* the value process_records returned
    create_request,         \* create_shard_iterator called directly: its arguments
    create_result,          \* and what it raised or returned
    times_to_retry,         \* api_multi_call_decorator: its argument
    attempt,                \* multi_attempt_api_call: its locals attempt
    response,               \* and response (unbound: <<>>)
    outcomes,               \* what each invocation of the wrapped request did
    api_return,             \* the response multi_attempt_api_call returned
    max_attempts,           \* function_retry_decorator: its arguments
    kill_execution,
    fn_attempt,             \* multi_attempt_function_call: its locals attempt
    error,                  \* and error (unbound: <<>>)
    invocations,            \* what each invocation of the wrapped function did
    fn_return,              \* what multi_attempt_function_call returned
    exit_status,            \* the status the process exited with (running: <<>>)
    s3_object,              \* the S3 object: its key's suffix and its content
    propagate_errors,       \* S3FileAppendContextManager: its argument
    new_file,               \* S3FileAppendData fields
    is_csv,
    is_json,
    rows_to_append,
    csvio,                  \* the StringIO buffer: the rows written, closed or not
    block_calls,            \* what the with-block has called, in order
    block_exception,        \* the exception the with-block raised ("none")
    puts,                   \* the bodies put to the S3 object, in order
    path_args,              \* path_parse: its arguments
    path_result,            \* and what it raised or returned
    kms_args,               \* bulk_decrypt: its arguments
    kms_result              \* and what it raised or returned

fields == <<sequence_number, shard_array, open_shards, closed_shards,
            sequence_shard_info, is_sequence_shard_open>>

walk == <<walk_start, walk_result>>

session == <<call, clock, responses, printed, described>>

returns == <<stream_data_return, result>>

iterator_call == <<create_request, create_result>>

api_call == <<times_to_retry, attempt, response, outcomes, api_return>>

fn_call == <<max_attempts, kill_execution, fn_attempt, error, invocations,
             fn_return, exit_status>>

append_data == <<new_file, is_csv, is_json, rows_to_append, csvio>>

s3_call == <<s3_object, propagate_errors, append_data, block_calls,
             block_exception, puts>>

path_call == <<path_args, path_result>>

\* the state outside the orchestrator
kms_call == <<kms_args, kms_result>>

outside == <<iterator_call, api_call, fn_call, s3_call, path_call, kms_call>>

vars == <<pc, exception, stream, fields, next_shard_iterator, walk,
          limit_records, queue, session, opened, returns, outside>>

\* no re-check made yet
NoRecheck == [calls |-> 0, stop |-> 0]

NoCall ==
    [open_shard |-> FALSE, limit_records |-> <<>>, iterator_type |-> "",
     shard_id |-> <<>>, SequenceNumber |-> <<>>, shard_id_local |-> <<>>,
     counter |-> 0, caller |-> ""]

\* nothing has run yet: the dataclass before __post_init__ (the init=False
\* fields are not set), no call in progress
Idle ==
    /\ pc = "new"
    /\ exception = "none"
    /\ shard_array = <<>>
    /\ open_shards = <<>>
    /\ closed_shards = <<>>
    /\ sequence_shard_info = <<>>
    /\ is_sequence_shard_open = FALSE
    /\ next_shard_iterator = <<>>
    /\ walk_start = <<>>
    /\ walk_result = [exc |-> "none", val |-> <<>>]
    /\ limit_records = <<>>
    /\ queue = <<>>
    /\ call = NoCall
    /\ clock = 0
    /\ opened = <<>>
    /\ responses = <<>>
    /\ printed = {}
    /\ described = NoRecheck
    /\ stream_data_return = <<>>
    /\ result = <<>>
    /\ create_request = <<>>
    /\ create_result = [exc |-> "none", val |-> <<>>]
    /\ times_to_retry = 0
    /\ attempt = 0
    /\ response = <<>>
    /\ outcomes = <<>>
    /\ api_return = <<>>
    /\ max_attempts = 0
    /\ kill_execution = FALSE
    /\ fn_attempt = 0
    /\ error = <<>>
    /\ invocations = <<>>
    /\ fn_return = <<>>
    /\ exit_status = <<>>
    /\ s3_object = [suffix |-> "", content |-> <<>>]
    /\ propagate_errors = FALSE
    /\ new_file = FALSE
    /\ is_csv = FALSE
    /\ is_json = FALSE
    /\ rows_to_append = <<>>
    /\ csvio = [rows |-> <<>>, closed |-> FALSE]
    /\ block_calls = <<>>
    /\ block_exception = "none"
    /\ puts = <<>>
    /\ path_args = <<>>
    /\ path_result = [exc |-> "none", val |-> <<>>]
    /\ kms_args = <<>>
    /\ kms_result = [exc |-> "none", val |-> <<>>]

\* sequence_number holds the constructor's argument; the stream holds one of
\* the scenarios or up to max_shards shards, of every range over nums, listed
\* in every order, and of every parentage (linked: parents within the
\* snapshot too)
InitWith(max_shards, nums, linked) ==
    /\ Idle
    /\ \/ stream \in Scenarios
       \/ \E n \in 1..max_shards :
            \E rs \in [1..n -> Ranges(nums)] :
              \E ps \in (IF linked THEN ParentSeqs(rs, n) ELSE UniformParentSeqs(n)) :
                 stream = SnapshotOf(rs, ps)
    /\ sequence_number \in Positions

InitResolve == InitWith(MaxShards, SeqNums, TRUE)

\* the chains the traversal starts from are the scenarios
Init == InitWith(MaxRunShards, RunSeqNums, FALSE)

\* AwsChangeStream.get_shard_object_array: the Shards of describe_stream
get_shard_object_array == stream

\* StreamOrchestrator.__post_init__
Construct ==
    /\ pc = "new"
    /\ LET seq == str(sequence_number)
           arr == get_shard_object_array
           found == find_shard_info(arr, seq)
       IN /\ sequence_number' = seq
          /\ shard_array' = arr
          /\ open_shards' = get_open_shards(arr)
          /\ closed_shards' = get_closed_shards(arr)
          /\ IF found.exc # "none"
             THEN /\ pc' = "raised"
                  /\ exception' = found.exc
                  /\ UNCHANGED <<sequence_shard_info, is_sequence_shard_open>>
             ELSE /\ pc' = "constructed"
                  /\ sequence_shard_info' = found.val
                  /\ is_sequence_shard_open' =
                        IF HasKey(found.val) THEN is_shard_open(found.val[1])
                        ELSE FALSE
                  /\ UNCHANGED exception
    /\ next_shard_iterator' = <<>>
    /\ UNCHANGED <<stream, walk, limit_records, queue, session, opened, returns,
                   outside>>

\* a call of get_closed_children_shards on a closed shard of the snapshot
WalkChildren ==
    /\ pc = "constructed"
    /\ \E i \in 1..Len(shard_array) :
         /\ ~is_shard_open(shard_array[i])
         /\ walk_start' = <<shard_array[i]>>
         /\ walk_result' = get_closed_children_shards(shard_array, shard_array[i])
    /\ pc' = "walked"
    /\ UNCHANGED <<exception, stream, fields, next_shard_iterator,
                   limit_records, queue, session, opened, returns, outside>>

NextResolve == Construct \/ WalkChildren

SpecResolve == InitResolve /\ [][NextResolve]_vars

\* --------------------------------------------------------- the traversal
IteratorTypes == {"TRIM_HORIZON", "AT_SEQUENCE_NUMBER", "AFTER_SEQUENCE_NUMBER", "LATEST"}

\* an iterator token of the service: the shard it reads and the page it is at
Token(shard_id, page) == [shard |-> shard_id, page |-> page]

\* create_shard_iterator without its validation
create_shard_iterator_unchecked(iterator_type, shard_id, SequenceNumber) ==
    [exc |-> "none", val |-> <<Token(shard_id, 1)>>]

\* AwsChangeStream.create_shard_iterator
create_shard_iterator(iterator_type, shard_id, SequenceNumber) ==
    IF iterator_type \notin IteratorTypes
    THEN [exc |-> "TypeError", val |-> <<>>]
    ELSE IF /\ iterator_type \in {"AFTER_SEQUENCE_NUMBER", "AT_SEQUENCE_NUMBER"}
            /\ ~HasKey(SequenceNumber)
    THEN [exc |-> "ValueError", val |-> <<>>]
    ELSE [exc |-> "none", val |-> <<Token(shard_id, 1)>>]

\* the iterator types a caller may pass, one of them not a type of the service
RequestedTypes == IteratorTypes \cup {"SHARD_END"}

\* a direct call of AwsChangeStream.create_shard_iterator: get_shard_iterator
\* is called (the request is sent) only when the validation passes
CreateIterator ==
    /\ pc = "new"
    /\ \E iterator_type \in RequestedTypes,
          i \in 1..Len(stream),
          SequenceNumber \in {<<>>, <<str(sequence_number)>>} :
         LET shard_id == stream[i].ShardId
             made == create_shard_iterator(iterator_type, shard_id, SequenceNumber)
             request == [shard_id |-> shard_id, iterator_type |-> iterator_type,
                         SequenceNumber |-> SequenceNumber]
         IN /\ create_request' = <<request>>
            /\ create_result' = made
            /\ opened' = IF made.exc = "none" THEN Append(opened, request)
                          ELSE opened
            /\ IF made.exc = "none"
               THEN pc' = "created" /\ UNCHANGED exception
               ELSE pc' = "raised" /\ exception' = made.exc
    /\ UNCHANGED <<stream, fields, next_shard_iterator, walk, limit_records,
                   queue, session, returns, api_call, fn_call, s3_call,
                   path_call, kms_call>>

\* the stream of the direct calls is one of the scenarios
InitIterator == InitWith(0, {}, FALSE)

NextIterator == CreateIterator

SpecIterator == InitIterator /\ [][NextIterator]_vars

\* the service has closed the shard (a shard it no longer lists is gone)
SourceClosed(shard_id) ==
    \A i \in 1..Len(stream) :
        stream[i].ShardId = shard_id => ~is_shard_open(stream[i])

\* get_stream_data that keeps the continuation token of the session before
BeginCall_keeps_token(open_shard, limit, iterator_type, shard_id, SequenceNumber, caller) ==
    /\ UNCHANGED next_shard_iterator
    /\ call' = [open_shard |-> open_shard,
                limit_records |-> limit,
                iterator_type |-> iterator_type,
                shard_id |-> shard_id,
                SequenceNumber |-> SequenceNumber,
                shard_id_local |->
                    IF ~open_shard THEN <<>>
                    ELSE IF /\ HasKey(SequenceNumber)
                            /\ StrContains(StrShardId, SequenceNumber[1])
                         THEN SequenceNumber
                    ELSE IF StrContains(StrShardId, shard_id) THEN <<shard_id>>
                    ELSE <<>>,
                counter |-> 0,
                caller |-> caller]
    /\ clock' = 0
    /\ responses' = <<>>
    /\ printed' = {}
    /\ described' = NoRecheck
    /\ pc' = "paging"

\* get_stream_data, up to its loop: the continuation token is dropped, and a
\* tail binds the local shard_id to the last keyword value that contains
\* "shardId" (no iterator type does) and reads the timer into start
BeginCall(open_shard, limit, iterator_type, shard_id, SequenceNumber, caller) ==
    /\ next_shard_iterator' = <<>>
    /\ call' = [open_shard |-> open_shard,
                limit_records |-> limit,
                iterator_type |-> iterator_type,
                shard_id |-> shard_id,
                SequenceNumber |-> SequenceNumber,
                shard_id_local |->
                    IF ~open_shard THEN <<>>
                    ELSE IF /\ HasKey(SequenceNumber)
                            /\ StrContains(StrShardId, SequenceNumber[1])
                         THEN SequenceNumber
                    ELSE IF StrContains(StrShardId, shard_id) THEN <<shard_id>>
                    ELSE <<>>,
                counter |-> 0,
                caller |-> caller]
    /\ clock' = 0
    /\ responses' = <<>>
    /\ printed' = {}
    /\ described' = NoRecheck
    /\ pc' = "paging"

\* trim_horizon_open_shards and start_sequence_open_shards end without a
\* return statement: whatever get_stream_data returned, they return None
open_shard_status(stream_data) == <<>>

\* where get_stream_data returns to
Return(value) ==
    /\ stream_data_return' = value
    /\ IF call.caller = "trim_horizon_closed_shards"
       THEN pc' = "closed_queue" /\ UNCHANGED result
       ELSE IF call.caller = "start_sequence_closed_shards"
       THEN pc' = "children" /\ UNCHANGED result
       ELSE pc' = "returned" /\ result' = open_shard_status(value)

Raise(exc) ==
    /\ pc' = "raised"
    /\ exception' = exc

\* process_records, up to its first call of get_stream_data
ProcessRecords ==
    /\ pc = "constructed"
    /\ \E lim \in {<<>>} \cup {<<n>> : n \in 1..MaxLimit} :
         /\ limit_records' = lim
         /\ IF ~HasKey(sequence_shard_info)
            THEN /\ queue' = [i \in 1..Len(closed_shards) |-> closed_shards[i].ShardId]
                 /\ pc' = "closed_queue"
                 /\ UNCHANGED <<next_shard_iterator, session>>
            ELSE IF is_sequence_shard_open
            THEN /\ BeginCall(TRUE, lim, "AFTER_SEQUENCE_NUMBER",
                              open_shards[1].ShardId, <<sequence_number>>,
                              "start_sequence_open_shards")
                 /\ UNCHANGED queue
            ELSE /\ BeginCall(FALSE, <<>>, "AFTER_SEQUENCE_NUMBER",
                              sequence_shard_info[1].ShardId, <<sequence_number>>,
                              "start_sequence_closed_shards")
                 /\ UNCHANGED queue
    /\ UNCHANGED <<exception, stream, fields, walk, opened, returns, outside>>

\* trim_horizon_closed_shards: the next get_stream_data of its map, or its end
ClosedQueueNext ==
    /\ pc = "closed_queue"
    /\ IF Len(queue) = 0
       THEN /\ pc' = "tail"
            /\ UNCHANGED <<queue, next_shard_iterator, session>>
       ELSE /\ BeginCall(FALSE, <<>>, "TRIM_HORIZON", Head(queue), <<>>,
                         "trim_horizon_closed_shards")
            /\ queue' = Tail(queue)
    /\ UNCHANGED <<exception, stream, fields, walk, limit_records, opened, returns,
                   outside>>

\* start_sequence_closed_shards after its drain: the closed-child chain
Children ==
    /\ pc = "children"
    /\ LET child_shards == get_closed_children_shards(shard_array, sequence_shard_info[1])
       IN /\ walk_start' = sequence_shard_info
          /\ walk_result' = child_shards
          /\ IF child_shards.exc # "none"
             THEN Raise(child_shards.exc) /\ UNCHANGED queue
             ELSE IF Len(child_shards.val) > 0
             THEN /\ queue' = [i \in 1..Len(child_shards.val) |-> child_shards.val[i].ShardId]
                  /\ pc' = "closed_queue"
                  /\ UNCHANGED exception
             ELSE /\ pc' = "tail"
                  /\ UNCHANGED <<queue, exception>>
    /\ UNCHANGED <<stream, fields, next_shard_iterator, limit_records, session,
                   opened, returns, outside>>

\* trim_horizon_open_shards
TailTrim ==
    /\ pc = "tail"
    /\ IF Len(open_shards) = 0
       THEN /\ Raise("IndexError")
            /\ UNCHANGED <<next_shard_iterator, session>>
       ELSE /\ BeginCall(TRUE, limit_records, "TRIM_HORIZON",
                         open_shards[1].ShardId, <<>>, "trim_horizon_open_shards")
            /\ UNCHANGED exception
    /\ UNCHANGED <<stream, fields, walk, limit_records, queue, opened, returns,
                   outside>>

\* get_data_from_shard that hands the response on whether or not it carries
\* NextShardIterator
data_always(has_next) == FALSE

\* get_data_from_shard returns None, not the response, when the response
\* carries no NextShardIterator
data_is_None(has_next) == ~has_next

\* a re-check throttle that lets a reading of exactly one second through
at_least_a_second(now) == now >= 1

\* (stop - start) > 1, now being stop - start
more_than_a_second(now) == now > 1

\* a re-check that stores the refreshed snapshot in the orchestrator
refresh_snapshot(seen) ==
    IF seen.calls > described.calls
    THEN /\ shard_array' = get_shard_object_array
         /\ open_shards' = get_open_shards(get_shard_object_array)
         /\ closed_shards' = get_closed_shards(get_shard_object_array)
         /\ UNCHANGED <<sequence_number, sequence_shard_info, is_sequence_shard_open>>
    ELSE UNCHANGED fields

\* the loop of get_stream_data assigns no attribute of the orchestrator but
\* next_shard_iterator: the re-check keeps the refreshed snapshot in the
\* local shard_dict
keep_snapshot(seen) == UNCHANGED fields

\* what one pass of the loop of get_stream_data does after get_records has
\* answered: kind is "continue", "return" (with value) or "raise" (with exc)
LoopBody(iterator, has_records, has_next, now) ==
    LET data_is_none == data_is_None(has_next)
        shown == IF has_records THEN printed \cup {iterator.page} ELSE printed
        elapsed == call.open_shard /\ more_than_a_second(now)
        shard_dict == filter_shard_array(call.shard_id_local[1], get_shard_object_array)
        seen == IF elapsed THEN [calls |-> described.calls + 1, stop |-> now]
                ELSE described
        restart == IF elapsed THEN 0 ELSE now
        base == [kind |-> "continue", exc |-> "none", value |-> <<>>,
                 printed |-> shown, described |-> seen, clock |-> restart,
                 counter |-> call.counter]
    IN IF ~call.open_shard /\ data_is_none
       THEN [base EXCEPT !.kind = "return", !.printed = printed,
                         !.described = described, !.clock = now]
       ELSE IF data_is_none
       THEN [base EXCEPT !.kind = "raise", !.exc = "TypeError", !.printed = printed,
                         !.described = described, !.clock = now]
       ELSE IF elapsed /\ ~HasKey(call.shard_id_local)
       THEN [base EXCEPT !.kind = "raise", !.exc = "UnboundLocalError",
                         !.described = described, !.clock = now]
       ELSE IF elapsed /\ shard_dict.exc # "none"
       THEN [base EXCEPT !.kind = "raise", !.exc = shard_dict.exc, !.clock = now]
       ELSE IF elapsed /\ ~is_shard_open(shard_dict.val[1])
       THEN [base EXCEPT !.kind = "return", !.clock = now,
                         !.value = <<[shard_id |-> call.shard_id_local[1],
                                      closed |-> TRUE]>>]
       ELSE IF HasKey(call.limit_records) /\ call.counter = call.limit_records[1] - 1
       THEN [base EXCEPT !.kind = "return"]
       ELSE IF HasKey(call.limit_records)
       THEN [base EXCEPT !.counter = call.counter + 1]
       ELSE base

\* one pass of the loop of get_stream_data: get_data_from_shard (a new
\* iterator when there is no continuation token, then get_records), then the
\* rest of the loop body
GetPage ==
    /\ pc = "paging"
    /\ LET creating == ~HasKey(next_shard_iterator)
           made == create_shard_iterator(call.iterator_type, call.shard_id,
                                         call.SequenceNumber)
       IN IF creating /\ made.exc # "none"
          THEN /\ Raise(made.exc)
               /\ UNCHANGED <<next_shard_iterator, session, opened, returns>>
          ELSE LET iterator == IF creating THEN made.val[1] ELSE next_shard_iterator[1]
               IN /\ iterator.page <= MaxPages
                  /\ \E has_records \in BOOLEAN, has_next \in BOOLEAN,
                        d \in (IF call.open_shard THEN 0..MaxDelay ELSE {0}) :
                       /\ ~has_next => SourceClosed(iterator.shard)
                       /\ (iterator.page = MaxPages /\ SourceClosed(iterator.shard))
                              => ~has_next
                       /\ LET o == LoopBody(iterator, has_records, has_next, clock + d)
                          IN /\ opened' = IF creating
                                          THEN Append(opened,
                                                 [shard_id |-> call.shard_id,
                                                  iterator_type |-> call.iterator_type,
                                                  SequenceNumber |-> call.SequenceNumber])
                                          ELSE opened
                             /\ next_shard_iterator' =
                                    IF has_next
                                    THEN <<Token(iterator.shard, iterator.page + 1)>>
                                    ELSE next_shard_iterator
                             /\ responses' = Append(responses,
                                                 [shard |-> iterator.shard,
                                                  page |-> iterator.page,
                                                  Records |-> has_records,
                                                  NextShardIterator |-> has_next])
                             /\ clock' = o.clock
                             /\ printed' = o.printed
                             /\ described' = o.described
                             /\ call' = [call EXCEPT !.counter = o.counter]
                             /\ IF o.kind = "raise"
                                THEN Raise(o.exc) /\ UNCHANGED returns
                                ELSE IF o.kind = "return"
                                THEN Return(o.value) /\ UNCHANGED exception
                                ELSE /\ pc' = "paging"
                                     /\ UNCHANGED <<exception, returns>>
    /\ keep_snapshot(described')
    /\ UNCHANGED <<stream, walk, limit_records, queue, outside>>

\* the service closes an open shard ("Shards can close at any time"); the
\* orchestrator reads only the presence of the ending number
SourceClosesShard ==
    /\ pc = "paging"
    /\ call.open_shard
    /\ \E i \in 1..Len(stream) :
         /\ is_shard_open(stream[i])
         /\ stream' = [stream EXCEPT ![i].EndingSequenceNumber =
                                         <<stream[i].StartingSequenceNumber>>]
    /\ UNCHANGED <<pc, exception, fields, next_shard_iterator, walk, limit_records,
                   queue, session, opened, returns, outside>>

Next ==
    \/ Construct
    \/ ProcessRecords
    \/ ClosedQueueNext
    \/ Children
    \/ TailTrim
    \/ GetPage
    \/ SourceClosesShard

Spec == Init /\ [][Next]_vars

\* ------------------------------------------------ api_multi_call_decorator
\* status codes a response may carry, on both sides of the two limits
StatusCodes == {199, 200, 204, 299, 300, 404}

\* a retry test that takes 200 alone for a success
status_is_200(status_code) == status_code = 200

\* 200 <= response.status_code < 300
status_in_200s(status_code) == 200 <= status_code /\ status_code < 300

\* what one invocation of the wrapped request does: it returns a response
\* with a status code, or the request function raises (a timeout, a refused
\* connection)
Outcomes ==
    {[raised |-> FALSE, status_code |-> c] : c \in StatusCodes}
    \cup {[raised |-> TRUE, status_code |-> 0]}

\* http_request with max_attempts = n: the decorator is applied
\* (function_wrapper) and the wrapped function is called (attempt = 0)
Decorate ==
    /\ pc = "new"
    /\ \E n \in 0..MaxRetry :
         /\ times_to_retry' = n
         /\ IF n < 1
            THEN pc' = "raised" /\ exception' = "ValueError"
            ELSE pc' = "retry_loop" /\ UNCHANGED exception
    /\ attempt' = 0
    /\ UNCHANGED <<response, outcomes, api_return>>
    /\ UNCHANGED <<stream, fields, next_shard_iterator, walk, limit_records,
                   queue, session, opened, returns, iterator_call, fn_call,
                   s3_call, path_call, kms_call>>

\* one pass of the while loop of multi_attempt_api_call
Attempt ==
    /\ pc = "retry_loop"
    /\ IF ~(attempt <= times_to_retry)
       THEN /\ pc' = "retry_returned"
            /\ api_return' = response
            /\ UNCHANGED <<exception, attempt, response, outcomes>>
       ELSE IF attempt = times_to_retry
       THEN /\ pc' = "raised"
            /\ exception' = "Exception"
            /\ UNCHANGED <<attempt, response, outcomes, api_return>>
       ELSE \E o \in Outcomes :
              /\ outcomes' = Append(outcomes, o)
              /\ IF o.raised
                 THEN /\ pc' = "raised"
                      /\ exception' = "RequestException"
                      /\ UNCHANGED <<attempt, response, api_return>>
                 ELSE /\ response' = <<o.status_code>>
                      /\ IF status_in_200s(o.status_code)
                         THEN /\ pc' = "retry_returned"
                              /\ api_return' = <<o.status_code>>
                              /\ UNCHANGED <<exception, attempt>>
                         ELSE /\ pc' = "retry_loop"
                              /\ attempt' = attempt + 1
                              /\ UNCHANGED <<exception, api_return>>
    /\ UNCHANGED times_to_retry
    /\ UNCHANGED <<stream, fields, next_shard_iterator, walk, limit_records,
                   queue, session, opened, returns, iterator_call, fn_call,
                   s3_call, path_call, kms_call>>

\* ------------------------------------------------ function_retry_decorator
\* what one invocation of the wrapped function does: it returns a value, it
\* raises an Exception (of one of two kinds), or it raises a BaseException
\* that is no Exception
Invocations ==
    {[kind |-> "return", value |-> v] : v \in {"v1", "v2"}}
    \cup {[kind |-> "Exception", value |-> e] : e \in {"ValueError", "KeyError"}}
    \cup {[kind |-> "BaseException", value |-> "KeyboardInterrupt"]}

\* a for loop that stops one attempt short: range(1, max_attempts)
range_exhausted_early(i, n) == i > n - 1

\* range(1, max_attempts + 1) has no attempt left
range_exhausted(i, n) == i > n

\* function_retry_decorator(max_attempts, logger, time_between_attempts,
\* kill_execution) applied to a function (function_wrapper), and the wrapped
\* function called
WrapFunction ==
    /\ pc = "new"
    /\ \E n \in 0..MaxRetry, kill \in BOOLEAN :
         /\ max_attempts' = n
         /\ kill_execution' = kill
         /\ IF n < 1
            THEN pc' = "raised" /\ exception' = "ValueError"
            ELSE pc' = "fn_loop" /\ UNCHANGED exception
    /\ fn_attempt' = 1
    /\ UNCHANGED <<error, invocations, fn_return, exit_status>>
    /\ UNCHANGED <<stream, fields, next_shard_iterator, walk, limit_records,
                   queue, session, opened, returns, iterator_call, api_call,
                   s3_call, path_call, kms_call>>

\* multi_attempt_function_call: one pass of its for loop, or its else clause
Invoke ==
    /\ pc = "fn_loop"
    /\ IF range_exhausted(fn_attempt, max_attempts)
       THEN /\ IF kill_execution
               THEN /\ pc' = "exited"
                    /\ exit_status' = <<1>>
                    /\ UNCHANGED exception
               ELSE /\ pc' = "raised"
                    /\ exception' = IF HasKey(error) THEN error[1]
                                     ELSE "UnboundLocalError"
                    /\ UNCHANGED exit_status
            /\ UNCHANGED <<fn_attempt, error, invocations, fn_return>>
       ELSE \E o \in Invocations :
              /\ invocations' = Append(invocations, o)
              /\ UNCHANGED exit_status
              /\ IF o.kind = "return"
                 THEN /\ pc' = "fn_returned"
                      /\ fn_return' = <<o.value>>
                      /\ UNCHANGED <<exception, fn_attempt, error>>
                 ELSE IF o.kind = "Exception"
                 THEN /\ error' = <<o.value>>
                      /\ fn_attempt' = fn_attempt + 1
                      /\ UNCHANGED <<pc, exception, fn_return>>
                 ELSE /\ pc' = "raised"
                      /\ exception' = o.value
                      /\ UNCHANGED <<fn_attempt, error, fn_return>>
    /\ UNCHANGED <<max_attempts, kill_execution>>
    /\ UNCHANGED <<stream, fields, next_shard_iterator, walk, limit_records,
                   queue, session, opened, returns, iterator_call, api_call,
                   s3_call, path_call, kms_call>>

\* no stream is involved in a request
InitRetry ==
    /\ Idle
    /\ stream = <<>>
    /\ sequence_number = PyNone

NextRetry == Decorate \/ Attempt \/ WrapFunction \/ Invoke

SpecRetry == InitRetry /\ [][NextRetry]_vars

\* ---------------------------------------------- S3FileAppendContextManager
\* the rows a file holds or a caller adds
Rows == {"r1", "r2"}

Headers == "h"

\* the S3 objects a manager is opened on: the key ends in .csv, .json or
\* neither; the object does not exist (get_object raises: content absent) or
\* holds rows
S3Objects ==
    {[suffix |-> x, content |-> c] :
        x \in {".csv", ".json", ".txt"},
        c \in {<<>>, <<<<>>>>, <<<<"r1">>>>}}

\* the steps outside the S3 manager leave the rest alone
NotS3 ==
    UNCHANGED <<stream, fields, next_shard_iterator, walk, limit_records, queue,
                session, opened, returns, iterator_call, api_call, fn_call,
                path_call, kms_call>>

\* S3FileAppendContextManager up to its yield: S3FileAppendData.__post_init__
\* on an S3Object
EnterManager ==
    /\ pc = "new"
    /\ \E o \in S3Objects, propagate \in BOOLEAN :
         LET csv == o.suffix = ".csv"
             json == o.suffix = ".json"
             missing == ~HasKey(o.content)
             existing_rows == IF missing THEN <<>> ELSE o.content[1]
             is_new == (csv \/ json) /\ missing
         IN /\ s3_object' = o
            /\ propagate_errors' = propagate
            /\ is_csv' = csv
            /\ is_json' = json
            /\ new_file' = is_new
            /\ IF ~(csv \/ json)
               THEN /\ pc' = "raised"
                    /\ exception' = "TypeError"
                    /\ UNCHANGED <<rows_to_append, csvio>>
               ELSE /\ pc' = "in_block"
                    /\ UNCHANGED exception
                    /\ csvio' = [rows |-> IF csv /\ ~is_new THEN existing_rows ELSE <<>>,
                                 closed |-> FALSE]
                    /\ rows_to_append' = IF json THEN existing_rows ELSE <<>>
    /\ UNCHANGED <<block_calls, block_exception, puts>>
    /\ NotS3

\* close_file
close_file(buffer) == IF is_csv THEN [buffer EXCEPT !.closed = TRUE] ELSE buffer

\* return_data_to_s3, after write_rows
return_data_to_s3(buffer) == IF is_csv THEN buffer.rows ELSE rows_to_append

\* a manager that puts the content in its finally clause
exit_writes_always(exc) == TRUE

\* the else clause of the manager's try runs when the block raised nothing
exit_writes(exc) == exc = "none"

\* S3FileAppendContextManager after its yield, the with-block having ended
\* with exc ("none": normally): except Exception / else / finally. put_ok is
\* whether Object.put succeeds
ExitManager(exc, put_ok) ==
    LET caught == exc \notin {"none", "KeyboardInterrupt"}
        written == IF is_csv THEN [csvio EXCEPT !.rows = csvio.rows \o rows_to_append]
                   ELSE csvio
    IN /\ block_exception' = exc
       /\ IF exit_writes(exc)
          THEN /\ csvio' = close_file(written)
               /\ puts' = Append(puts, return_data_to_s3(written))
               /\ IF put_ok
                  THEN pc' = "exited_block" /\ UNCHANGED exception
                  ELSE pc' = "raised" /\ exception' = "ClientError"
          ELSE /\ csvio' = close_file(csvio)
               /\ UNCHANGED puts
               /\ IF caught /\ ~propagate_errors
                  THEN pc' = "exited_block" /\ UNCHANGED exception
                  ELSE pc' = "raised" /\ exception' = exc

\* add_rows(new_rows) in the with-block (append left False)
AddRows ==
    /\ pc = "in_block"
    /\ Len(block_calls) < MaxCalls
    /\ \E r \in Rows :
         /\ rows_to_append' = Append(rows_to_append, r)
         /\ block_calls' = Append(block_calls, r)
    /\ UNCHANGED <<pc, exception, s3_object, propagate_errors, new_file, is_csv,
                   is_json, csvio, block_exception, puts>>
    /\ NotS3

\* add_headers(headers) in the with-block: on a new file it reads
\* self.existing_rows, an attribute no method sets
AddHeaders ==
    /\ pc = "in_block"
    /\ Len(block_calls) < MaxCalls
    /\ block_calls' = Append(block_calls, Headers)
    /\ IF new_file
       THEN \E put_ok \in BOOLEAN : ExitManager("AttributeError", put_ok)
       ELSE UNCHANGED <<pc, exception, csvio, block_exception, puts>>
    /\ UNCHANGED <<s3_object, propagate_errors, new_file, is_csv, is_json,
                   rows_to_append>>
    /\ NotS3

\* the with-block ends, normally or by raising, and the manager exits
LeaveBlock ==
    /\ pc = "in_block"
    /\ \E exc \in {"none", "ValueError", "KeyboardInterrupt"}, put_ok \in BOOLEAN :
         ExitManager(exc, put_ok)
    /\ UNCHANGED <<s3_object, propagate_errors, new_file, is_csv, is_json,
                   rows_to_append, block_calls>>
    /\ NotS3

InitS3 ==
    /\ Idle
    /\ stream = <<>>
    /\ sequence_number = PyNone

NextS3 == EnterManager \/ AddRows \/ AddHeaders \/ LeaveBlock

SpecS3 == InitS3 /\ [][NextS3]_vars

\* --------------------------------------------------------------- path_parse
\* a relative path is the sequence of its components; the str of a path joins
\* them with "/"
PathNames == {"a", "b", "f.csv"}

RECURSIVE PathsOf(_)
PathsOf(n) ==
    IF n = 0 THEN {}
    ELSE PathsOf(n - 1) \cup [1..n -> PathNames]

\* Path(file_name).name
path_name(path_object) == <<path_object[Len(path_object)]>>

\* Path(file_name).parent: "." (no component) for a bare file name
path_parent(path_object) == SubSeq(path_object, 1, Len(path_object) - 1)

\* path_parse: the file name when get_file_name, else the folders ("root"
\* for ".") when get_folders, else None
path_parse(file_name, get_file_name, get_folders) ==
    LET path_object == file_name IN
    IF get_file_name THEN [exc |-> "none", val |-> path_name(path_object)]
    ELSE IF get_folders
    THEN LET folder == path_parent(path_object)
         IN [exc |-> "none", val |-> IF folder # <<>> THEN folder ELSE <<"root">>]
    ELSE [exc |-> "none", val |-> <<>>]

\* a call of path_parse
PathParse ==
    /\ pc = "new"
    /\ \E file_name \in PathsOf(MaxDepth),
          get_file_name \in BOOLEAN, get_folders \in BOOLEAN :
         /\ path_args' = <<[file_name |-> file_name, get_file_name |-> get_file_name,
                            get_folders |-> get_folders]>>
         /\ path_result' = path_parse(file_name, get_file_name, get_folders)
         /\ IF path_parse(file_name, get_file_name, get_folders).exc = "none"
            THEN pc' = "parsed" /\ UNCHANGED exception
            ELSE /\ pc' = "raised"
                 /\ exception' = path_parse(file_name, get_file_name, get_folders).exc
    /\ UNCHANGED <<stream, fields, next_shard_iterator, walk, limit_records, queue,
                   session, opened, returns, iterator_call, api_call, fn_call,
                   s3_call, kms_call>>

InitPath ==
    /\ Idle
    /\ stream = <<>>
    /\ sequence_number = PyNone

NextPath == PathParse

SpecPath == InitPath /\ [][NextPath]_vars

\* ------------------------------------------------------ AwsKms.bulk_decrypt
\* decrypt fails on the secret "bad"
\* _send_decrypt_request(secret)["Plaintext"].decode("UTF-8")
send_decrypt(secret) ==
    IF secret = "bad" THEN [exc |-> "ClientError", val |-> ""]
    ELSE [exc |-> "none", val |-> IF secret = "s1" THEN "p1" ELSE "p2"]

\* a positional argument: a str, a list of str, or something else (an int)
KmsItems ==
    {[type |-> "str", val |-> <<v>>] : v \in {"s1", "bad"}}
    \cup {[type |-> "list", val |-> <<"s1", v>>] : v \in {"s2", "bad"}}
    \cup {[type |-> "int", val |-> <<>>]}

\* the keyword names of a call, in the order given
KmsKwargs ==
    {<<>>, <<"logger">>, <<"Logger">>, <<"other">>, <<"logger", "other">>,
     <<"other", "logger">>}

\* k.lower()
lower(k) == IF k = "Logger" THEN "logger" ELSE k

\* LOGGER after the loop over kwargs.keys(): every key assigns it, the last
\* one decides; without keywords it is never assigned
bind_logger(kwargs) ==
    IF Len(kwargs) = 0 THEN "unbound"
    ELSE IF lower(kwargs[Len(kwargs)]) = "logger" THEN "logger"
    ELSE "None"

\* _bulk_request_func: the plaintext(s) of a str or a list; any Exception
\* (a failing decrypt, the ValueError of another type) is handled by reading
\* LOGGER, a NameError when it was never assigned, and returning the secret
bulk_request_func(secret, LOGGER) ==
    LET failed == \/ secret.type \notin {"str", "list"}
                  \/ \E i \in 1..Len(secret.val) :
                        send_decrypt(secret.val[i]).exc # "none"
    IN IF ~failed
       THEN [exc |-> "none",
             val |-> <<[type |-> secret.type,
                        val |-> [i \in 1..Len(secret.val) |->
                                    send_decrypt(secret.val[i]).val]]>>]
       ELSE IF LOGGER = "unbound" THEN [exc |-> "NameError", val |-> <<>>]
       ELSE [exc |-> "none", val |-> <<secret>>]

RECURSIVE map_bulk_request(_, _)
\* list(map(_bulk_request_func, args)): in order, ended by the first raise
map_bulk_request(args, LOGGER) ==
    IF Len(args) = 0 THEN [exc |-> "none", val |-> <<>>]
    ELSE LET first == bulk_request_func(args[1], LOGGER) IN
         IF first.exc # "none" THEN [exc |-> first.exc, val |-> <<>>]
         ELSE LET rest == map_bulk_request(Tail(args), LOGGER) IN
              IF rest.exc # "none" THEN rest
              ELSE [exc |-> "none", val |-> first.val \o rest.val]

bulk_decrypt(args, kwargs) == map_bulk_request(args, bind_logger(kwargs))

RECURSIVE ArgsOf(_)
ArgsOf(n) ==
    IF n = 0 THEN {<<>>}
    ELSE ArgsOf(n - 1) \cup [1..n -> KmsItems]

\* a call of bulk_decrypt
BulkDecrypt ==
    /\ pc = "new"
    /\ \E args \in ArgsOf(MaxArgs), kwargs \in KmsKwargs :
         /\ kms_args' = <<[args |-> args, kwargs |-> kwargs]>>
         /\ kms_result' = bulk_decrypt(args, kwargs)
         /\ IF bulk_decrypt(args, kwargs).exc = "none"
            THEN pc' = "decrypted" /\ UNCHANGED exception
            ELSE /\ pc' = "raised"
                 /\ exception' = bulk_decrypt(args, kwargs).exc
    /\ UNCHANGED <<stream, fields, next_shard_iterator, walk, limit_records, queue,
                   session, opened, returns, iterator_call, api_call, fn_call,
                   s3_call, path_call>>

InitKms ==
    /\ Idle
    /\ stream = <<>>
    /\ sequence_number = PyNone

NextKms == BulkDecrypt

SpecKms == InitKms /\ [][NextKms]_vars

\* ------------------------------------------------------------- properties
Last(s) == s[Len(s)]

\* the position is a numeric text
NumericPosition == ~float_raises(sequence_number)

\* the recorded range of a closed shard holds the position
RangeHolds(x, position) ==
    /\ HasKey(x.EndingSequenceNumber)
    /\ float(x.StartingSequenceNumber) <= float(position)
    /\ float(position) <= float(x.EndingSequenceNumber[1])

\* the position is strictly inside the recorded range of a closed shard
StrictlyInside(x, position) ==
    /\ HasKey(x.EndingSequenceNumber)
    /\ float(x.StartingSequenceNumber) < float(position)
    /\ float(position) < float(x.EndingSequenceNumber[1])

\* indexes of the shards of the snapshot that have no ending number
OpenIndexes == {i \in 1..Len(shard_array) : ~HasKey(shard_array[i].EndingSequenceNumber)}

\* C1: every page get_stream_data has fetched that came back with records has
\* had its records printed, the last page of a closed shard included, before
\* anything else is requested (a page is fetched and handled in one step).
C1_EveryFetchedBatchIsPrinted ==
    \A k \in 1..Len(responses) :
        responses[k].Records => responses[k].page \in printed

\* C2: while an open shard is tailed, a response without NextShardIterator
\* leaves the reader in its loop: it neither returns nor raises.
C2_TailSurvivesMissingNextIterator ==
    (/\ call.open_shard
     /\ Len(responses) > 0
     /\ ~Last(responses).NextShardIterator) => pc = "paging"

\* C3: a position strictly inside the range of a closed shard S resolves to S,
\* whatever open shards the snapshot lists and in whatever order (stated where
\* S is the only closed shard whose range holds the position, so that the
\* claim names one shard).
C3_PositionInsideClosedShardFindsIt ==
    (pc \in {"constructed", "walked"} /\ NumericPosition) =>
        \A i \in 1..Len(shard_array) :
            (/\ StrictlyInside(shard_array[i], sequence_number)
             /\ \A j \in 1..Len(shard_array) :
                    RangeHolds(shard_array[j], sequence_number) => j = i)
            => sequence_shard_info = <<shard_array[i]>>

\* the case of C4: the orchestrator was constructed, for a numeric position,
\* on a snapshot with an open shard and no closed range holding the position
C4_Case ==
    /\ pc \in {"constructed", "walked", "raised"}
    /\ NumericPosition
    /\ OpenIndexes # {}
    /\ \A j \in 1..Len(shard_array) : ~RangeHolds(shard_array[j], sequence_number)

\* C4 (as claimed): on a snapshot with an open shard, a position no recorded
\* range holds resolves to an open shard, never to None, without raising.
C4_UncontainedPositionFindsOpenShard ==
    C4_Case => /\ pc # "raised"
               /\ HasKey(sequence_shard_info)
               /\ ~HasKey(sequence_shard_info[1].EndingSequenceNumber)

\* C4 (amended): on a snapshot with an open shard, a numeric position no
\* recorded range holds never raises; it resolves to the first open shard of
\* the snapshot when some open shard starts at or below the position, and to
\* None when every open shard starts above it.
C4_UncontainedPositionResolution ==
    C4_Case =>
        /\ pc # "raised"
        /\ LET first == CHOOSE i \in OpenIndexes : \A j \in OpenIndexes : i <= j
           IN IF \E i \in OpenIndexes :
                     float(shard_array[i].StartingSequenceNumber) <= float(sequence_number)
              THEN sequence_shard_info = <<shard_array[first]>>
              ELSE sequence_shard_info = <<>>

\* C4 witness: the fallback acted: an open shard was returned for a position
\* no recorded range holds, on a snapshot that also lists a closed shard
C4_Witness ==
    /\ C4_Case
    /\ pc = "constructed"
    /\ HasKey(sequence_shard_info)
    /\ \E j \in 1..Len(shard_array) : HasKey(shard_array[j].EndingSequenceNumber)

\* C5: closed_shards ascends by the numeric value of StartingSequenceNumber,
\* also across different digit counts ("99" before "100").
C5_ClosedShardsAscendNumerically ==
    pc \in {"constructed", "walked"} =>
        \A i, j \in 1..Len(closed_shards) :
            i < j => float(closed_shards[i].StartingSequenceNumber)
                        <= float(closed_shards[j].StartingSequenceNumber)

\* the shard of the snapshot with this id
ShardOf(shard_id) ==
    shard_array[CHOOSE i \in 1..Len(shard_array) : shard_array[i].ShardId = shard_id]

ClosedIds ==
    {shard_array[i].ShardId : i \in (1..Len(shard_array)) \ OpenIndexes}

Request(shard_id, iterator_type, SequenceNumber) ==
    [shard_id |-> shard_id, iterator_type |-> iterator_type,
     SequenceNumber |-> SequenceNumber]

IsPrefix(s, w) == Len(s) <= Len(w) /\ s = SubSeq(w, 1, Len(s))

\* C6: resuming at 250 on A(100-200) -> B(201-300) -> C(301-, open) opens
\* exactly (B, AFTER_SEQUENCE_NUMBER, 250) and then (C, TRIM_HORIZON), and
\* raises no exception.
C6_ChainScenarioOpensBThenC ==
    (pc # "new" /\ shard_array = ScenarioChain /\ sequence_number = S250) =>
        LET expected == <<Request(IdB, "AFTER_SEQUENCE_NUMBER", <<S250>>),
                          Request(IdC, "TRIM_HORIZON", <<>>)>>
        IN /\ pc # "raised"
           /\ IsPrefix(opened, expected)
           /\ pc = "returned" => opened = expected

\* C7: when no shard is found, every closed shard is drained once from
\* TRIM_HORIZON in ascending numeric order of start, and the first open shard
\* is tailed from TRIM_HORIZON only after all of them.
C7_BackfillAscendsThenTails ==
    (pc # "new" /\ ~HasKey(sequence_shard_info) /\ Len(open_shards) > 0) =>
        \A k \in 1..Len(opened) :
            /\ opened[k].iterator_type = "TRIM_HORIZON"
            /\ IF opened[k].shard_id \in ClosedIds
               THEN \A j \in 1..(k - 1) :
                        /\ opened[j].shard_id \in ClosedIds
                        /\ opened[j].shard_id # opened[k].shard_id
                        /\ float(ShardOf(opened[j].shard_id).StartingSequenceNumber)
                              <= float(ShardOf(opened[k].shard_id).StartingSequenceNumber)
               ELSE /\ opened[k].shard_id = open_shards[1].ShardId
                    /\ ClosedIds \subseteq {opened[j].shard_id : j \in 1..(k - 1)}

\* C8: when the found shard is open, the only iterator opened is on the found
\* shard, AFTER_SEQUENCE_NUMBER the position, and the found shard is the one
\* whose range holds the position.
C8_OpenFoundShardHoldsPosition ==
    (is_sequence_shard_open /\ Len(opened) > 0) =>
        /\ opened = <<Request(sequence_shard_info[1].ShardId,
                              "AFTER_SEQUENCE_NUMBER", <<sequence_number>>)>>
        /\ float(sequence_shard_info[1].StartingSequenceNumber)
              <= float(sequence_number)

\* C9: when the tailed shard is detected closed, process_records returns the
\* status {shard_id, closed: True} get_stream_data returned, not None.
C9_ClosedStatusReachesCaller ==
    (pc = "returned" /\ HasKey(stream_data_return)) =>
        result = stream_data_return

\* indexes of the shards whose ParentShardId is this id
ChildIndexes(shard_id) ==
    {i \in 1..Len(shard_array) :
        /\ HasKey(shard_array[i].ParentShardId)
        /\ shard_array[i].ParentShardId[1] = shard_id}

\* indexes of the shards whose parent is not in the snapshot
RootIndexes ==
    {i \in 1..Len(shard_array) :
        \/ ~HasKey(shard_array[i].ParentShardId)
        \/ \A j \in 1..Len(shard_array) :
               shard_array[j].ShardId # shard_array[i].ParentShardId[1]}

\* the parent links form one chain of closed shards that ends in an open shard
IsChain ==
    /\ Len(shard_array) >= 2
    /\ Cardinality(RootIndexes) = 1
    /\ Cardinality(OpenIndexes) = 1
    /\ \A i \in 1..Len(shard_array) :
           /\ Cardinality(ChildIndexes(shard_array[i].ShardId)) <= 1
           /\ i \in OpenIndexes => ChildIndexes(shard_array[i].ShardId) = {}

RECURSIVE ClosedChainAfter(_)
\* the closed shards that follow shard i along the parent links
ClosedChainAfter(i) ==
    LET c == ChildIndexes(shard_array[i].ShardId) IN
    IF c = {} THEN <<>>
    ELSE LET j == CHOOSE j \in c : TRUE IN
         IF j \in OpenIndexes THEN <<>>
         ELSE <<shard_array[j]>> \o ClosedChainAfter(j)

\* C10: on a chain of N closed shards followed by an open shard,
\* get_closed_children_shards started at the first shard returns the N-1
\* closed descendants, parent before child, and not the open shard.
C10_ChainWalkReturnsClosedDescendants ==
    (/\ pc = "walked"
     /\ IsChain
     /\ walk_start = <<shard_array[CHOOSE i \in RootIndexes : TRUE]>>) =>
        /\ walk_result.exc = "none"
        /\ walk_result.val = ClosedChainAfter(CHOOSE i \in RootIndexes : TRUE)
        /\ Len(walk_result.val) = Len(shard_array) - 2

\* C11: constructing with no resume position (None) on a non-empty snapshot
\* does not raise and leaves sequence_shard_info None and
\* is_sequence_shard_open False.
C11_NoPositionConstructs ==
    (pc # "new" /\ sequence_number = StrNone /\ Len(shard_array) > 0) =>
        /\ pc # "raised"
        /\ sequence_shard_info = <<>>
        /\ ~is_sequence_shard_open

\* indexes of the closed shards whose recorded range holds the position
MatchingIndexes ==
    {i \in 1..Len(shard_array) : RangeHolds(shard_array[i], sequence_number)}

\* C12: when the ranges of several shards hold the position, the found shard
\* is a matching shard of smallest numeric start, in whatever order the
\* snapshot lists them.
C12_SeveralMatchesSmallestStart ==
    (/\ pc \in {"constructed", "walked"}
     /\ NumericPosition
     /\ Cardinality(MatchingIndexes) > 1) =>
        \E i \in MatchingIndexes :
            /\ sequence_shard_info = <<shard_array[i]>>
            /\ \A j \in MatchingIndexes :
                   float(shard_array[i].StartingSequenceNumber)
                      <= float(shard_array[j].StartingSequenceNumber)

\* C13: a drain of a closed shard fetches its first page with a new iterator
\* and every later page with the NextShardIterator of the page before; it goes
\* on to the next page exactly when the response carries NextShardIterator,
\* and otherwise returns None to its caller without raising.
C13_DrainEndsWhenNextIteratorMissing ==
    [][(pc = "paging" /\ ~call.open_shard /\ ~HasKey(call.limit_records)) =>
          LET fetched == Last(responses') IN
          /\ Len(responses') = Len(responses) + 1
          /\ fetched.shard = call.shard_id
          /\ fetched.page = Len(responses')
          /\ Len(responses) > 0 =>
                next_shard_iterator = <<Token(fetched.shard, fetched.page)>>
          /\ IF fetched.NextShardIterator
             THEN /\ pc' = "paging"
                  /\ next_shard_iterator' = <<Token(fetched.shard, fetched.page + 1)>>
             ELSE /\ pc' \in {"closed_queue", "children"}
                  /\ exception' = "none"
                  /\ stream_data_return' = <<>>]_vars

\* C13 witness: a drain went past its first page and has ended on a response
\* without NextShardIterator
C13_Witness ==
    /\ ~call.open_shard
    /\ Len(responses) > 1
    /\ ~Last(responses).NextShardIterator
    /\ pc \in {"closed_queue", "children"}

\* C14: closed_shards and open_shards partition the snapshot: every closed
\* shard has an EndingSequenceNumber, no open shard has one, and every shard of
\* the snapshot is in exactly one of the two lists.
C14_ClosedAndOpenPartition ==
    pc \in {"constructed", "walked"} =>
        /\ \A i \in 1..Len(closed_shards) : HasKey(closed_shards[i].EndingSequenceNumber)
        /\ \A i \in 1..Len(open_shards) : ~HasKey(open_shards[i].EndingSequenceNumber)
        /\ Len(closed_shards) + Len(open_shards) = Len(shard_array)
        /\ \A i \in 1..Len(shard_array) :
               (shard_array[i] \in Elems(closed_shards))
                   # (shard_array[i] \in Elems(open_shards))

\* C14 witness: a snapshot with closed and open shards was split
C14_Witness ==
    /\ pc = "constructed"
    /\ Len(closed_shards) > 0
    /\ Len(open_shards) > 0
    /\ Len(shard_array) = MaxShards

\* C15: every describe_stream call of the re-check is made more than one
\* second after the timer was last read: after the tail loop started for the
\* first one, after the describe_stream call before it for the others.
C15_RecheckAtMostOncePerSecond ==
    (call.open_shard /\ described.calls > 0) => described.stop > 1

\* C15 witness: a tail has made a second re-check
C15_Witness ==
    /\ call.open_shard
    /\ described.calls >= 2

\* C16: a call with limit_records = n fetches at most n pages, and having
\* fetched n pages it has returned, without raising.
C16_LimitEndsSession ==
    (call.caller # "" /\ HasKey(call.limit_records)) =>
        /\ Len(responses) <= call.limit_records[1]
        /\ Len(responses) = call.limit_records[1] => pc = "returned"

\* the direct call was invalid: an unknown iterator type
BadType == create_request[1].iterator_type \notin IteratorTypes

\* the direct call was invalid: a position type without its SequenceNumber
MissingSequenceNumber ==
    /\ create_request[1].iterator_type \in {"AT_SEQUENCE_NUMBER", "AFTER_SEQUENCE_NUMBER"}
    /\ ~HasKey(create_request[1].SequenceNumber)

\* C17: an unknown iterator type raises TypeError, AT_SEQUENCE_NUMBER or
\* AFTER_SEQUENCE_NUMBER without a SequenceNumber raises ValueError, and in
\* both cases no request has been sent to the service.
C17_InvalidRequestRejectedUnsent ==
    HasKey(create_request) =>
        /\ BadType => (pc = "raised" /\ exception = "TypeError" /\ opened = <<>>)
        /\ (~BadType /\ MissingSequenceNumber) =>
               (pc = "raised" /\ exception = "ValueError" /\ opened = <<>>)
        /\ (~BadType /\ ~MissingSequenceNumber) => opened = create_request

\* C17 witness: a position type was requested without a SequenceNumber
C17_Witness ==
    /\ HasKey(create_request)
    /\ MissingSequenceNumber
    /\ pc = "raised"

\* C18: every page is fetched in the session of the shard it belongs to: the
\* first page of a session with an iterator created for the session's shard
\* by the one create_shard_iterator call of the session, every later page with
\* the NextShardIterator the page before returned, and no session begins
\* while another is in its loop.
C18_TokenStaysInItsShard ==
    [][/\ (responses' # responses /\ Len(responses') > 0) =>
            LET fetched == Last(responses') IN
            /\ pc = "paging"
            /\ Len(responses') = Len(responses) + 1
            /\ fetched.shard = call.shard_id
            /\ IF Len(responses) = 0
               THEN /\ fetched.page = 1
                    /\ opened' = Append(opened, Request(call.shard_id, call.iterator_type,
                                                        call.SequenceNumber))
               ELSE /\ opened' = opened
                    /\ next_shard_iterator = <<Token(fetched.shard, fetched.page)>>
                    /\ fetched.page = Last(responses).page + 1
       /\ call' # call => (call'.shard_id # call.shard_id => pc # "paging")
       /\ (pc' = "paging" /\ pc # "paging") =>
              (next_shard_iterator' = <<>> /\ responses' = <<>>)]_vars

\* C18 witness: a second shard's session is past its first page, after the
\* session of the shard before it had stored a continuation token
C18_Witness ==
    /\ Len(opened) > 1
    /\ opened[1].shard_id # call.shard_id
    /\ Len(responses) > 1
    /\ pc = "paging"

\* C19: once the orchestrator is constructed no step changes sequence_number,
\* sequence_shard_info, is_sequence_shard_open, shard_array, open_shards or
\* closed_shards, the steps of a re-check of the snapshot included.
C19_FieldsFrozenAfterConstruction ==
    [][pc # "new" => fields' = fields]_vars

\* C19 witness: a re-check has read a snapshot in which the tailed shard is
\* closed, while the orchestrator still lists it as open
C19_Witness ==
    /\ described.calls > 0
    /\ HasKey(stream_data_return)
    /\ \E i \in 1..Len(open_shards) :
           /\ open_shards[i].ShardId = stream_data_return[1].shard_id
           /\ SourceClosed(open_shards[i].ShardId)

\* the invocation returned a response with a status code in 200..299
Succeeded(o) == ~o.raised /\ 200 <= o.status_code /\ o.status_code <= 299

\* the invocation returned a response with a status code outside 200..299
Failed(o) == ~o.raised /\ ~(200 <= o.status_code /\ o.status_code <= 299)

\* C20: with times_to_retry = n >= 1 the request is invoked at most n times;
\* a response in 200..299 is the last invocation and is what the call returns;
\* and the call ends with the decorator's Exception exactly when it ends after
\* n responses that are all outside 200..299.
C20_RetryUntilSuccessOrExhausted ==
    times_to_retry >= 1 =>
        /\ Len(outcomes) <= times_to_retry
        /\ \A k \in 1..Len(outcomes) :
               Succeeded(outcomes[k]) =>
                   /\ k = Len(outcomes)
                   /\ pc = "retry_returned"
                   /\ api_return = <<outcomes[k].status_code>>
        /\ pc = "retry_returned" =>
               (Len(outcomes) > 0 /\ Succeeded(Last(outcomes)))
        /\ pc \in {"raised", "retry_returned"} =>
               ((pc = "raised" /\ exception = "Exception")
                  <=> (/\ Len(outcomes) = times_to_retry
                       /\ \A k \in 1..Len(outcomes) : Failed(outcomes[k])))

\* C20 witness: a call returned the response of its last allowed invocation,
\* after retrying responses outside 200..299
C20_Witness ==
    /\ pc = "retry_returned"
    /\ times_to_retry > 1
    /\ Len(outcomes) = times_to_retry
    /\ api_return = <<299>>

\* the invocations so far have all raised an Exception
AllRaised == \A k \in 1..Len(invocations) : invocations[k].kind = "Exception"

ManagerExited ==
    /\ pc \in {"exited_block", "raised"}
    /\ is_csv \/ is_json

\* C22: when the with-block ends without an exception the manager puts to S3
\* exactly once, when the block raises it never puts; an Exception raised in
\* the block reaches the caller if and only if propagate_errors is True; and
\* the CSV buffer is closed on exit either way.
C22_WriteOnceOnSuccessOnly ==
    ManagerExited =>
        /\ block_exception = "none" => Len(puts) = 1
        /\ block_exception # "none" => Len(puts) = 0
        /\ block_exception \in {"ValueError", "AttributeError"} =>
               ((pc = "raised" /\ exception = block_exception) <=> propagate_errors)
        /\ is_csv => csvio.closed

\* C22 witness: a block that added rows to a CSV file raised, the error was
\* absorbed and nothing was put
C22_Witness ==
    /\ ManagerExited
    /\ is_csv
    /\ block_exception = "ValueError"
    /\ Len(rows_to_append) > 0
    /\ pc = "exited_block"

\* the rows the with-block added, in order
RECURSIVE AddedRows(_)
AddedRows(calls) ==
    IF Len(calls) = 0 THEN <<>>
    ELSE IF calls[1] = Headers THEN AddedRows(Tail(calls))
    ELSE <<calls[1]>> \o AddedRows(Tail(calls))

\* C23: on a new file a with-block that calls add_headers and then ends
\* normally has the headers put as the first row, followed by the rows it
\* added; on a file that exists add_headers changes nothing.
C23_HeadersFirstOnNewFile ==
    (/\ pc # "new"
     /\ is_csv \/ is_json
     /\ \E k \in 1..Len(block_calls) : block_calls[k] = Headers) =>
        /\ block_exception \in {"none", "ValueError", "KeyboardInterrupt"}
        /\ (new_file /\ pc = "exited_block" /\ block_exception = "none") =>
               puts = << <<Headers>> \o AddedRows(block_calls) >>
        /\ ~new_file => rows_to_append =
               (IF is_json THEN s3_object.content[1] ELSE <<>>) \o AddedRows(block_calls)

\* C24: path_parse with both flags raises ValueError; with get_file_name
\* alone it returns the file name, with get_folders alone the folders of the
\* path.
C24_BothFlagsRaiseValueError ==
    HasKey(path_args) =>
        LET a == path_args[1] IN
        /\ (a.get_file_name /\ a.get_folders) =>
               (pc = "raised" /\ exception = "ValueError")
        /\ (a.get_file_name /\ ~a.get_folders) =>
               path_result = [exc |-> "none", val |-> <<Last(a.file_name)>>]
        /\ (~a.get_file_name /\ a.get_folders /\ Len(a.file_name) > 1) =>
               path_result = [exc |-> "none",
                              val |-> SubSeq(a.file_name, 1, Len(a.file_name) - 1)]

\* C25: a tail of an open shard without limit_records ends only by
\* get_stream_data returning {shard_id, closed: True}: never by an
\* exception, never by a silent return.
C25_TailEndsOnlyWithClosedStatus ==
    (/\ pc \in {"raised", "returned"}
     /\ call.open_shard
     /\ ~HasKey(call.limit_records)
     /\ HasKey(call.shard_id_local)) =>
        /\ pc = "returned"
        /\ stream_data_return = <<[shard_id |-> call.shard_id_local[1],
                                   closed |-> TRUE]>>

\* get_stream_data has returned {shard_id, closed: True} for some shard
ClosedStatus(value) ==
    /\ HasKey(value)
    /\ value[1].closed

\* C26: a tail returns {shard_id, closed: True} only from a re-check whose
\* fresh snapshot lists the shard being paged, and no other, as closed, and
\* no page is fetched after it; a re-check whose fresh snapshot shows that
\* shard open does not end the tail (only limit_records then can).
C26_ClosedStatusOnlyForTailedShard ==
    [][/\ (ClosedStatus(stream_data_return') /\ ~ClosedStatus(stream_data_return)) =>
              /\ call.open_shard
              /\ described'.calls = described.calls + 1
              /\ stream_data_return'[1].shard_id = Last(responses').shard
              /\ stream_data_return'[1].shard_id = call.shard_id
              /\ SourceClosed(call.shard_id)
       /\ ClosedStatus(stream_data_return) => responses' = responses
       /\ (/\ described'.calls = described.calls + 1
           /\ ~SourceClosed(call.shard_id)) =>
              /\ ~ClosedStatus(stream_data_return')
              /\ pc' = "paging" \/ (HasKey(call.limit_records) /\ pc' = "returned")
      ]_vars

\* a re-check ended the tail with the closed status of its own shard while
\* the stream lists another closed shard as well
C26_Witness ==
    /\ pc = "returned"
    /\ ClosedStatus(stream_data_return)
    /\ described.calls >= 1
    /\ \E i \in 1..Len(stream) :
         stream[i].ShardId # call.shard_id /\ ~is_shard_open(stream[i])

\* chain is parent-linked from shard start: every element is a closed shard
\* whose ParentShardId is the ShardId of the element before it, the first
\* one's that of start
IsParentLinkedChain(start, chain) ==
    \A k \in 1..Len(chain) :
        /\ HasKey(chain[k].EndingSequenceNumber)
        /\ chain[k].ParentShardId =
               <<(IF k = 1 THEN start ELSE chain[k - 1]).ShardId>>

\* the first shard of the snapshot, in its order, whose parent is shard_id
FirstChild(shard_id) ==
    shard_array[CHOOSE i \in ChildIndexes(shard_id) :
                    \A j \in ChildIndexes(shard_id) : i <= j]

\* the walk followed, at every shard, the first child in snapshot order, and
\* stopped at a shard without children or whose first child is open
FollowsFirstChildren(start, chain) ==
    /\ \A k \in 1..Len(chain) :
           LET before == (IF k = 1 THEN start ELSE chain[k - 1]).ShardId
           IN ChildIndexes(before) # {} /\ chain[k] = FirstChild(before)
    /\ LET end == (IF Len(chain) = 0 THEN start ELSE Last(chain)).ShardId
       IN \/ ChildIndexes(end) = {}
          \/ ~HasKey(FirstChild(end).EndingSequenceNumber)

\* C27: on a snapshot with root shards (no ParentShardId)
\* get_closed_children_shards does not raise and returns the closed-child
\* chain of the starting shard.
C27_WalkDefinedOnForestWithRoots ==
    (/\ pc = "walked"
     /\ \E i \in 1..Len(shard_array) : ~HasKey(shard_array[i].ParentShardId)) =>
        /\ walk_result.exc = "none"
        /\ IsParentLinkedChain(walk_start[1], walk_result.val)

\* the ids of the shards start_sequence_closed_shards drains, and of the
\* shard tailed after it
PlannedIds ==
    {walk_start[1].ShardId}
    \cup {walk_result.val[k].ShardId : k \in 1..Len(walk_result.val)}
    \cup {open_shards[i].ShardId : i \in {1} \cap DOMAIN open_shards}

\* C28: the result of get_closed_children_shards is one parent-linked chain
\* of closed shards that follows, at every shard, only the first child in
\* snapshot order; the other children are never drained by
\* start_sequence_closed_shards.
C28_WalkFollowsOneChildPerShard ==
    (HasKey(walk_start) /\ walk_result.exc = "none") =>
        /\ IsParentLinkedChain(walk_start[1], walk_result.val)
        /\ FollowsFirstChildren(walk_start[1], walk_result.val)
        /\ \A k \in 1..Len(opened) : opened[k].shard_id \in PlannedIds

\* the traversal ended after a walk from a shard with two children that
\* followed one of them
C28_Witness ==
    /\ pc = "returned"
    /\ HasKey(walk_start)
    /\ walk_result.exc = "none"
    /\ Len(walk_result.val) >= 1
    /\ Cardinality(ChildIndexes(walk_start[1].ShardId)) >= 2
    /\ Len(opened) >= 3

\* process_records ran on an orchestrator constructed without open shards,
\* and has ended
C29_Case ==
    /\ pc \in {"raised", "returned"}
    /\ call # NoCall
    /\ Len(open_shards) = 0

\* C29: with no open shard in the snapshot of construction, process_records
\* drains the closed shards of its plan and then ends with IndexError; it
\* never returns normally.
C29_NoOpenShardEndsWithIndexError ==
    C29_Case =>
        /\ pc = "raised"
        /\ exception = "IndexError"

\* what the result holds for an item: its plaintext(s), or the item itself
\* when decrypting it fails
DecryptedOrUnchanged(secret) ==
    IF /\ secret.type \in {"str", "list"}
       /\ \A i \in 1..Len(secret.val) : secret.val[i] # "bad"
    THEN [type |-> secret.type,
          val |-> [i \in 1..Len(secret.val) |->
                      IF secret.val[i] = "s1" THEN "p1" ELSE "p2"]]
    ELSE secret

\* C30: bulk_decrypt never raises because of a failing item; with or without
\* a logger keyword its result has one entry per positional argument, in
\* order: the plaintext, or the item unchanged when decrypting it fails.
C30_BulkDecryptKeepsPositions ==
    HasKey(kms_args) =>
        /\ pc = "decrypted"
        /\ Len(kms_result.val) = Len(kms_args[1].args)
        /\ \A i \in 1..Len(kms_args[1].args) :
               kms_result.val[i] = DecryptedOrUnchanged(kms_args[1].args[i])

====
